---------------------------- MODULE Spec2Model ----------------------------
(***************************************************************************)
(* Model of the quiz generator pages (src/main.py, src/pages/pdftoQuiz.py, *)
(* src/pages/imagetoQuiz.py, src/pages/quiz_from_image_openai.py).         *)
(*                                                                         *)
(* Python strings are TLA+ strings (Len, SubSeq and \o act on them         *)
(* character by character).  Parsed JSON values are tagged records, so     *)
(* that values of different Python types can be compared:                  *)
(*   None  [t |-> "null"]            bool  [t |-> "bool", b |-> TRUE]      *)
(*   int   [t |-> "num", n |-> 1]    str   [t |-> "str", s |-> "a"]        *)
(*   list  [t |-> "list", items |-> <<...>>]                               *)
(*   dict  [t |-> "obj", f |-> [key set -> values]]                        *)
(***************************************************************************)
EXTENDS Integers, Sequences, FiniteSets, TLC

VARIABLES
    page,      \* which page the session runs: one script per page
    uploaded,  \* the file_uploader widget: the extracted text of each file
    quiz,      \* st.session_state quiz entry (NoQuiz when missing or None)
    radios,    \* the radio widgets rendered by the last run, by question
    answers,   \* the answer sheet the last run collected from the radios
    ui,        \* what the last run rendered: "noquiz", "ready" or "crash"
    event,     \* what the last run did: the action, its outcome, LLM calls
    arg,       \* the input of the pure function under check
    out        \* its result

vars == <<page, uploaded, quiz, radios, answers, ui, event, arg, out>>

\* ------------------------------------------------------------- strings

Min(a, b) == IF a < b THEN a ELSE b
Max(a, b) == IF a > b THEN a ELSE b

\* s[i] for a 1-based i, "" outside the string
Ch(s, i) == IF i >= 1 /\ i <= Len(s) THEN SubSeq(s, i, i) ELSE ""

\* Python s[lo:hi] with 0-based bounds; a negative bound counts from the end
PySlice(s, lo, hi) ==
    LET n == Len(s)
        a == IF lo < 0 THEN Max(n + lo, 0) ELSE Min(lo, n)
        b == IF hi < 0 THEN Max(n + hi, 0) ELSE Min(hi, n)
    IN  IF a < b THEN SubSeq(s, a + 1, b) ELSE ""

\* the slice forgotten: the whole string
PrefixUncut(s, n) == s

\* Python s[:n] for n >= 0
Prefix(s, n) == PySlice(s, 0, n)

IsWs(c) == c \in {" ", "\n", "\t", "\r"}

RECURSIVE LStripIdx(_, _)
LStripIdx(s, i) == IF IsWs(Ch(s, i)) THEN LStripIdx(s, i + 1) ELSE i

RECURSIVE RStripIdx(_, _)
RStripIdx(s, j) == IF IsWs(Ch(s, j)) THEN RStripIdx(s, j - 1) ELSE j

\* str.strip()
Strip(s) ==
    LET i == LStripIdx(s, 1)
        j == RStripIdx(s, Len(s))
    IN  IF i > j THEN "" ELSE SubSeq(s, i, j)

\* str.find(c) for a one-character c: 0-based index of the first c, or -1
RECURSIVE FindFrom(_, _, _)
FindFrom(s, c, i) ==
    IF i > Len(s) THEN -1
    ELSE IF Ch(s, i) = c THEN i - 1 ELSE FindFrom(s, c, i + 1)

Find(s, c) == FindFrom(s, c, 1)

\* str.rfind(c): 0-based index of the last c, or -1
RECURSIVE RFindFrom(_, _, _)
RFindFrom(s, c, i) ==
    IF i < 1 THEN -1
    ELSE IF Ch(s, i) = c THEN i - 1 ELSE RFindFrom(s, c, i - 1)

RFind(s, c) == RFindFrom(s, c, Len(s))

\* ---------------------------------------------------------- JSON values

JNull == [t |-> "null"]
JBool(b) == [t |-> "bool", b |-> b]
JNum(n) == [t |-> "num", n |-> n]
JStr(s) == [t |-> "str", s |-> s]
JList(items) == [t |-> "list", items |-> items]
JObj(f) == [t |-> "obj", f |-> f]

EmptyDict == [k \in {} |-> JNull]

\* d[key] = v on a dict: a repeated key keeps the last value
DictPut(f, key, v) ==
    [k \in (DOMAIN f) \cup {key} |-> IF k = key THEN v ELSE f[k]]

\* ------------------------------------------------------------ json.loads
\* The decoder over the characters of the reply: objects, arrays, strings
\* (with the escapes \" \\ \/ \n \t), integers, true, false, null, and
\* whitespace between tokens.  Anything else is a JSONDecodeError.

Digits == {"0", "1", "2", "3", "4", "5", "6", "7", "8", "9"}

DigitVal(c) ==
    CASE c = "0" -> 0 [] c = "1" -> 1 [] c = "2" -> 2 [] c = "3" -> 3
      [] c = "4" -> 4 [] c = "5" -> 5 [] c = "6" -> 6 [] c = "7" -> 7
      [] c = "8" -> 8 [] OTHER -> 9

Fail == [ok |-> FALSE]
Ok(v, i) == [ok |-> TRUE, v |-> v, i |-> i]

RECURSIVE ScanInt(_, _, _)
ScanInt(s, i, acc) ==
    IF Ch(s, i) \in Digits
    THEN ScanInt(s, i + 1, 10 * acc + DigitVal(Ch(s, i)))
    ELSE Ok(acc, i)

\* the characters of a string literal after its opening quote
RECURSIVE ScanString(_, _, _)
ScanString(s, i, acc) ==
    LET c == Ch(s, i)
        e == Ch(s, i + 1)
    IN  IF c = "" \/ c \in {"\n", "\t", "\r"} THEN Fail
        ELSE IF c = "\"" THEN Ok(acc, i + 1)
        ELSE IF c = "\\"
             THEN IF e \in {"\"", "\\", "/"} THEN ScanString(s, i + 2, acc \o e)
                  ELSE IF e = "n" THEN ScanString(s, i + 2, acc \o "\n")
                  ELSE IF e = "t" THEN ScanString(s, i + 2, acc \o "\t")
                  ELSE Fail
        ELSE ScanString(s, i + 1, acc \o c)

Literal(s, i, word) ==
    i + Len(word) - 1 <= Len(s) /\ SubSeq(s, i, i + Len(word) - 1) = word

RECURSIVE ParseValue(_, _)
RECURSIVE ParseElements(_, _, _)
RECURSIVE ParseMembers(_, _, _)

\* a value starting at s[i] (no leading whitespace)
ParseValue(s, i) ==
    LET c == Ch(s, i)
        j == LStripIdx(s, i + 1)
    IN  CASE c = "{" ->
               IF Ch(s, j) = "}" THEN Ok(JObj(EmptyDict), j + 1)
               ELSE ParseMembers(s, j, EmptyDict)
          [] c = "[" ->
               IF Ch(s, j) = "]" THEN Ok(JList(<<>>), j + 1)
               ELSE ParseElements(s, j, <<>>)
          [] c = "\"" ->
               LET r == ScanString(s, i + 1, "")
               IN  IF r.ok THEN Ok(JStr(r.v), r.i) ELSE Fail
          [] c \in Digits ->
               LET r == ScanInt(s, i, 0) IN Ok(JNum(r.v), r.i)
          [] c = "-" ->
               IF Ch(s, i + 1) \in Digits
               THEN LET r == ScanInt(s, i + 1, 0) IN Ok(JNum(0 - r.v), r.i)
               ELSE Fail
          [] c = "n" -> IF Literal(s, i, "null") THEN Ok(JNull, i + 4) ELSE Fail
          [] c = "t" -> IF Literal(s, i, "true") THEN Ok(JBool(TRUE), i + 4) ELSE Fail
          [] c = "f" -> IF Literal(s, i, "false") THEN Ok(JBool(FALSE), i + 5) ELSE Fail
          [] OTHER -> Fail

\* the elements of an array, s[i] being the first character of an element
ParseElements(s, i, acc) ==
    LET r == ParseValue(s, i)
    IN  IF ~r.ok THEN Fail
        ELSE LET j == LStripIdx(s, r.i)
                 items == Append(acc, r.v)
             IN  IF Ch(s, j) = "," THEN ParseElements(s, LStripIdx(s, j + 1), items)
                 ELSE IF Ch(s, j) = "]" THEN Ok(JList(items), j + 1)
                 ELSE Fail

\* the members of an object, s[i] being the opening quote of a key
ParseMembers(s, i, acc) ==
    IF Ch(s, i) # "\"" THEN Fail
    ELSE LET k == ScanString(s, i + 1, "")
         IN  IF ~k.ok THEN Fail
             ELSE LET j == LStripIdx(s, k.i)
                  IN  IF Ch(s, j) # ":" THEN Fail
                      ELSE LET r == ParseValue(s, LStripIdx(s, j + 1))
                           IN  IF ~r.ok THEN Fail
                               ELSE LET m == LStripIdx(s, r.i)
                                        f == DictPut(acc, k.v, r.v)
                                    IN  IF Ch(s, m) = ","
                                        THEN ParseMembers(s, LStripIdx(s, m + 1), f)
                                        ELSE IF Ch(s, m) = "}" THEN Ok(JObj(f), m + 1)
                                        ELSE Fail

\* json.loads(s): [ok |-> TRUE, v |-> value], or [ok |-> FALSE] for a
\* JSONDecodeError (no value, or extra data after it)
JsonLoads(s) ==
    LET r == ParseValue(s, LStripIdx(s, 1))
    IN  IF r.ok /\ LStripIdx(s, r.i) > Len(s) THEN [ok |-> TRUE, v |-> r.v]
        ELSE Fail


\* ------------------------------------------------- Python value semantics

\* needle in hay, for two str
Contains(hay, needle) ==
    \E i \in 1..(Len(hay) - Len(needle) + 1) :
        SubSeq(hay, i, i + Len(needle) - 1) = needle

\* a == b compares True with 1 and False with 0; containers compare by value
RECURSIVE Norm(_)
Norm(v) ==
    CASE v.t = "bool" -> JNum(IF v.b THEN 1 ELSE 0)
      [] v.t = "list" -> JList([i \in 1..Len(v.items) |-> Norm(v.items[i])])
      [] v.t = "obj" -> JObj([k \in DOMAIN v.f |-> Norm(v.f[k])])
      [] OTHER -> v

PyEq(a, b) == Norm(a) = Norm(b)

\* bool(v)
Truthy(v) ==
    CASE v.t = "null" -> FALSE
      [] v.t = "bool" -> v.b
      [] v.t = "num" -> v.n # 0
      [] v.t = "str" -> v.s # ""
      [] v.t = "list" -> v.items # <<>>
      [] OTHER -> DOMAIN v.f # {}

\* (key in c) for a str key: "yes", "no", or "TypeError" when c is no container
PyIn(key, c) ==
    CASE c.t = "obj" -> IF key \in DOMAIN c.f THEN "yes" ELSE "no"
      [] c.t = "list" ->
           IF \E i \in 1..Len(c.items) : PyEq(c.items[i], JStr(key))
           THEN "yes" ELSE "no"
      [] c.t = "str" -> IF Contains(c.s, key) THEN "yes" ELSE "no"
      [] OTHER -> "TypeError"

\* (x in lst) for a list
InList(x, lst) == \E i \in 1..Len(lst.items) : PyEq(lst.items[i], x)

\* whether c[key] for a str key is a value: a dict holding the key.  On a
\* dict without it the lookup is a KeyError, on anything else a TypeError.
HasKey(c, key) == c.t = "obj" /\ key \in DOMAIN c.f

\* ------------------------------------------------------- safe_parse_json

MalformedMsg == "Model did not return valid JSON."
DecodeMsg == "JSONDecodeError"

Parsed(v) == [ok |-> TRUE, v |-> v]
Raised(msg) == [ok |-> FALSE, err |-> msg]

\* the salvage slice with the "+ 1" of end forgotten
SalvageSliceShort(s) == PySlice(s, Find(s, "{"), RFind(s, "}"))

\* s[start:end] of the salvage branch
SalvageSlice(s) == PySlice(s, Find(s, "{"), RFind(s, "}") + 1)

safe_parse_json(raw) ==
    LET s == Strip(raw)
        direct == JsonLoads(s)
        start == Find(s, "{")
        end == RFind(s, "}") + 1
        salvaged == JsonLoads(SalvageSlice(s))
    IN  IF direct.ok THEN Parsed(direct.v)
        ELSE IF start >= 0 /\ end > start
             THEN IF salvaged.ok THEN Parsed(salvaged.v) ELSE Raised(DecodeMsg)
             ELSE Raised(MalformedMsg)

\* ------------------------------------------------------------ validation

QuestionsMsg == "Response JSON missing a non-empty 'questions' array."
FieldsMsg == "Each question needs 'question', 'options', and 'answer'."
OptionsMsg == "Each question must have exactly 4 options."
AnswerMsg == "Answer must be one of the options."
TypeErrorMsg == "TypeError"

SchemaMsgs == {QuestionsMsg, FieldsMsg, OptionsMsg, AnswerMsg}

RequiredKeys == <<"question", "options", "answer">>

\* all(k in q for k in ("question", "options", "answer")), from key n on:
\* "yes", "no", or "TypeError" from the first test that raises
RECURSIVE AllKeysIn(_, _)
AllKeysIn(q, n) ==
    IF n > Len(RequiredKeys) THEN "yes"
    ELSE LET r == PyIn(RequiredKeys[n], q)
         IN  IF r = "yes" THEN AllKeysIn(q, n + 1) ELSE r

\* the body of the validation loop for one question: "ok" or the error raised
CheckQuestion(q) ==
    LET has == AllKeysIn(q, 1)
    IN  IF has = "TypeError" THEN TypeErrorMsg
        ELSE IF has = "no" THEN FieldsMsg
        ELSE IF q.t # "obj" THEN TypeErrorMsg
        ELSE IF q.f["options"].t # "list" \/ Len(q.f["options"].items) # 4
             THEN OptionsMsg
        ELSE IF ~InList(q.f["answer"], q.f["options"]) THEN AnswerMsg
        ELSE "ok"

\* for q in quiz["questions"]: the first error raised, or "ok"
RECURSIVE CheckQuestions(_, _)
CheckQuestions(qs, n) ==
    IF n > Len(qs) THEN "ok"
    ELSE LET r == CheckQuestion(qs[n])
         IN  IF r = "ok" THEN CheckQuestions(qs, n + 1) ELSE r

\* the validation step of generate_quiz_from_text on the parsed reply
ValidateQuiz(v) ==
    LET has == PyIn("questions", v)
    IN  IF has = "TypeError" THEN Raised(TypeErrorMsg)
        ELSE IF has = "no" THEN Raised(QuestionsMsg)
        ELSE IF v.t # "obj" THEN Raised(TypeErrorMsg)
        ELSE IF v.f["questions"].t # "list" \/ ~Truthy(v.f["questions"])
             THEN Raised(QuestionsMsg)
        ELSE LET r == CheckQuestions(v.f["questions"].items, 1)
             IN  IF r = "ok" THEN Parsed(v) ELSE Raised(r)

\* -------------------------------------------------- sanitize_user_prompt

LowerCh(c) ==
    CASE c = "A" -> "a" [] c = "B" -> "b" [] c = "C" -> "c" [] c = "D" -> "d"
      [] c = "E" -> "e" [] c = "F" -> "f" [] c = "G" -> "g" [] c = "H" -> "h"
      [] c = "I" -> "i" [] c = "J" -> "j" [] c = "K" -> "k" [] c = "L" -> "l"
      [] c = "M" -> "m" [] c = "N" -> "n" [] c = "O" -> "o" [] c = "P" -> "p"
      [] c = "Q" -> "q" [] c = "R" -> "r" [] c = "S" -> "s" [] c = "T" -> "t"
      [] c = "U" -> "u" [] c = "V" -> "v" [] c = "W" -> "w" [] c = "X" -> "x"
      [] c = "Y" -> "y" [] c = "Z" -> "z" [] OTHER -> c

\* str.lower()
RECURSIVE LowerFrom(_, _)
LowerFrom(s, i) ==
    IF i > Len(s) THEN "" ELSE LowerCh(Ch(s, i)) \o LowerFrom(s, i + 1)

Lower(s) == LowerFrom(s, 1)

WordChars ==
    {"a", "b", "c", "d", "e", "f", "g", "h", "i", "j", "k", "l", "m", "n",
     "o", "p", "q", "r", "s", "t", "u", "v", "w", "x", "y", "z", "_"} \cup Digits

\* \w
IsWord(c) == LowerCh(c) \in WordChars

\* \b between s[i-1] and s[i]
Boundary(s, i) == IsWord(Ch(s, i - 1)) # IsWord(Ch(s, i))

\* the list bad, in order: the literal (matched under (?i)), whether it is
\* wrapped in \b ... \b, and whether it is anchored with ^
BadPatterns ==
    << [lit |-> "you are an", wb |-> TRUE, anchor |-> FALSE],
       [lit |-> "ignore previous", wb |-> FALSE, anchor |-> FALSE],
       [lit |-> "act as", wb |-> TRUE, anchor |-> FALSE],
       [lit |-> "disregard", wb |-> FALSE, anchor |-> FALSE],
       [lit |-> "system:", wb |-> FALSE, anchor |-> TRUE],
       [lit |-> "user:", wb |-> FALSE, anchor |-> TRUE],
       [lit |-> "assistant:", wb |-> FALSE, anchor |-> TRUE] >>

\* whether pattern pat matches s starting at s[i]
MatchAt(s, pat, i) ==
    LET n == Len(pat.lit)
    IN  /\ i + n - 1 <= Len(s)
        /\ Lower(SubSeq(s, i, i + n - 1)) = pat.lit
        /\ pat.anchor => i = 1
        /\ pat.wb => Boundary(s, i) /\ Boundary(s, i + n)

\* re.search(pat, s) is not None
Matches(s, pat) == \E i \in 1..Len(s) : MatchAt(s, pat, i)

\* re.sub(pat, "", s): the leftmost non-overlapping matches removed, in one
\* scan of s from s[i] on
RECURSIVE SubFrom(_, _, _)
SubFrom(s, pat, i) ==
    IF i > Len(s) THEN ""
    ELSE IF MatchAt(s, pat, i) THEN SubFrom(s, pat, i + Len(pat.lit))
    ELSE Ch(s, i) \o SubFrom(s, pat, i + 1)

ReSub(pat, s) == SubFrom(s, pat, 1)

\* for pat in bad: user_input = re.sub(pat, "", user_input), from bad[n] on
RECURSIVE SubAll(_, _)
SubAll(s, n) ==
    IF n > Len(BadPatterns) THEN s ELSE SubAll(ReSub(BadPatterns[n], s), n + 1)

sanitize_user_prompt(user_input) ==
    IF user_input = "" THEN "" ELSE Strip(SubAll(user_input, 1))

\* ----------------------------------------------------- prompt builders
\* The templates are the source's text; its two non-ASCII characters, the
\* bullet and the en dash, are written * and -.

DigitChar(d) ==
    CASE d = 0 -> "0" [] d = 1 -> "1" [] d = 2 -> "2" [] d = 3 -> "3"
      [] d = 4 -> "4" [] d = 5 -> "5" [] d = 6 -> "6" [] d = 7 -> "7"
      [] d = 8 -> "8" [] OTHER -> "9"

\* str(n), as an f-string formats an int
RECURSIVE NatToStr(_)
NatToStr(n) == IF n < 10 THEN DigitChar(n) ELSE NatToStr(n \div 10) \o DigitChar(n % 10)

IntToStr(n) == IF n < 0 THEN "-" \o NatToStr(0 - n) ELSE NatToStr(n)

shared_rules ==
    "Format rules:\n"
    \o "1) Return STRICT JSON only (no markdown, backticks, or commentary).\n"
    \o "2) JSON schema: {\"questions\":[{\"question\":\"...\",\"options\":[\"...\",\"...\",\"...\",\"...\"],\"answer\":\"...\"}]}.\n"
    \o "3) Exactly 4 options per item; plausible distractors; avoid 'All of the above/None of the above'.\n"
    \o "4) The answer string must exactly match one of the options.\n"
    \o "5) Base all content ONLY on the provided PDF text.\n"
    \o "6) Clear, single-focus items; avoid ambiguity and double-negatives.\n"

EasyRules(n) ==
    "Task: Generate " \o IntToStr(n)
    \o " MCQs at **Remembering/Understanding** levels of Bloom's.\n"
    \o "- Focus: facts, definitions, key terms, purposes, simple interpretations.\n"
    \o "- Cognitive ops: recognize, recall, define, identify, classify, summarize.\n"
    \o "Suggested question-stem patterns:\n"
    \o "* Which of the following best defines <term>?\n"
    \o "* According to the text, what is the purpose of <X>?\n"
    \o "* <Concept> is primarily associated with which of the following?\n"
    \o "* Which statement is TRUE about <topic>?\n"
    \o "* Identify the correct sequence/element/label for <diagram/text excerpt>.\n"

MediumRules(n) ==
    "Task: Generate " \o IntToStr(n)
    \o " MCQs at **Applying/Analyzing** levels of Bloom's.\n"
    \o "- Focus: applying procedures, interpreting data/figures, comparing/contrasting, categorizing, inference.\n"
    \o "- Cognitive ops: apply, compute, infer, organize, differentiate, compare.\n"
    \o "Suggested question-stem patterns:\n"
    \o "* Given the scenario, which approach should be applied first?\n"
    \o "* Which inference can be drawn from the data/example provided in the text?\n"
    \o "* Which option best completes the classification of <items>?\n"
    \o "* Compared with <A>, <B> primarily differs in which aspect?\n"
    \o "* What is the most appropriate calculation/step to solve <problem> using the method described?\n"

HardRules(n) ==
    "Task: Generate " \o IntToStr(n)
    \o " MCQs at **Evaluating/Creating** levels of Bloom's with a strong **case-study** focus.\n"
    \o "- For at least HALF of the questions, include a **2-3 sentence mini case** derived from the text (synthesize details; do not invent facts beyond it).\n"
    \o "- Focus: critique decisions, weigh trade-offs, choose optimal designs/strategies, predict outcomes, justify selections.\n"
    \o "- Cognitive ops: evaluate, prioritize, justify, design, propose, adapt.\n"
    \o "Suggested question-stem patterns:\n"
    \o "* CASE: <2-3 sentence scenario>. Which decision best addresses the constraints described?\n"
    \o "* Based on the criteria outlined in the text, which option is the most defensible choice and why?\n"
    \o "* If applying the framework to <new but text-consistent context>, which modification is most appropriate?\n"
    \o "* Which risk/assumption most critically impacts the outcome in the scenario described?\n"
    \o "* Which design/plan best meets the specified objectives and constraints?\n"

\* d = (difficulty or "easy").lower(); a missing difficulty is ""
\* the difficulty taken as typed, its letter case kept
DifficultyKeyCased(difficulty) == IF difficulty = "" THEN "easy" ELSE difficulty

DifficultyKey(difficulty) == Lower(IF difficulty = "" THEN "easy" ELSE difficulty)

level_rules(d, n) ==
    IF d = "easy" THEN EasyRules(n)
    ELSE IF d = "medium" THEN MediumRules(n)
    ELSE HardRules(n)

\* a guidance block taken from the session instead of the input
GuidanceOfSession(extra) ==
    IF quiz = JNull THEN "" ELSE "\nDo not repeat the questions of the quiz on display.\n"

user_guidance(extra) ==
    IF extra # ""
    THEN "\nAdditional user guidance (follow without breaking the JSON schema):\n"
         \o "\"\"\"\n" \o extra \o "\n\"\"\"\n"
    ELSE ""

FinalRule == "\nOutput ONLY the JSON object."

\* a prompt with the guidance put after the final rule
PromptGuidanceLast(difficulty, n, extra) ==
    level_rules(DifficultyKey(difficulty), n)
    \o "\n"
    \o shared_rules
    \o FinalRule
    \o user_guidance(sanitize_user_prompt(extra))

\* prompt_for of pdftoQuiz.py; quiz_from_image_openai.py has the same
\* function without the guidance (ImagePromptFor)
prompt_for(difficulty, n, extra) ==
    level_rules(DifficultyKey(difficulty), n)
    \o "\n"
    \o shared_rules
    \o user_guidance(sanitize_user_prompt(extra))
    \o FinalRule

ImagePromptFor(difficulty, n) ==
    level_rules(DifficultyKey(difficulty), n) \o "\n" \o shared_rules \o FinalRule

\* the content caps
PdfMaxChars == 14000
ImageMaxContent == 5000
MainMaxContent == 2000

PdfContentIntro == "\n\nUse this text as the knowledge source:\n"

\* full_prompt of generate_quiz_from_text
PdfFullPrompt(content, difficulty, num_questions, extra) ==
    prompt_for(difficulty, num_questions, extra)
    \o PdfContentIntro
    \o Prefix(content, PdfMaxChars)

MainPromptTail ==
    "\n"
    \o "Provide the output as a JSON object with the following structure: \n"
    \o "{\"questions\":[{\"question\":\"<question_text>\", \"options\":[\"option1\",\"option2\",\"option3\",\"option4\"], \"answer\":\"correct_option\"}]}"

\* prompt of generate_quiz in main.py
MainPrompt(content, difficulty, num_questions) ==
    "Generate " \o IntToStr(num_questions) \o " " \o difficulty
    \o " multiple-choice questions based on the following content:\n"
    \o Prefix(content, MainMaxContent)
    \o MainPromptTail

ImageEasyIntro(n) ==
    "Generate " \o IntToStr(n)
    \o " multiple-choice questions that assess lower levels of Bloom's Taxonomy: Remembering and Understanding. These questions should focus on factual recall, definitions, basic principles, and fundamental concepts. Ensure that questions are clear, direct, and test theoretical knowledge without requiring deep analysis. Examples of question styles include:\n"
    \o "- 'Which of the following best defines [concept]?' \n"
    \o "- 'What is the primary function of [topic]?' \n"
    \o "- 'Which statement about [subject] is correct?' \n"
    \o "Use the following content as the knowledge source:\n"

ImageMediumIntro(n) ==
    "Generate " \o IntToStr(n)
    \o " multiple-choice questions that assess middle levels of Bloom's Taxonomy: Applying and Analyzing. These questions should require students to apply concepts to real-world scenarios and analyze relationships between different ideas. Ensure that questions involve case studies, problem-solving, and comparative analysis. Examples of question styles include:\n"
    \o "- 'If [scenario] occurs, which principle of [topic] should be applied to solve it?' \n"
    \o "- 'How does [concept A] differ from [concept B] in practical use?' \n"
    \o "- 'Which of the following best explains why [phenomenon] happens?' \n"
    \o "Use the following content as the knowledge source:\n"

ImageHardIntro(n) ==
    "Generate " \o IntToStr(n)
    \o " multiple-choice questions that assess upper levels of Bloom's Taxonomy: Evaluating and Creating. These questions should require critical thinking, evaluation of theories, synthesis of new ideas, and justification of arguments. Ensure that questions involve critical assessment, theoretical comparison, and decision-making based on incomplete or conflicting information. Examples of question styles include:\n"
    \o "- 'Which of the following arguments best supports [theory] in the context of [situation]?' \n"
    \o "- 'If you were to design a new [system/method], which factors would be most critical for its success?' \n"
    \o "- 'Evaluate the strengths and weaknesses of [approach A] versus [approach B] in solving [problem].' \n"
    \o "Use the following content as the knowledge source:\n"

ImagePromptTail ==
    "\n"
    \o "Output only a JSON object with this structure:\n"
    \o "{\"questions\":[{\"question\":\"<question_text>\", \"options\":[\"option1\",\"option2\",\"option3\",\"option4\"], \"answer\":\"correct_option\"}]}"

\* prompt of generate_quiz in imagetoQuiz.py: it stays "" when the
\* difficulty is none of the three
ImagePrompt(content, difficulty, num_questions) ==
    LET c == Prefix(content, ImageMaxContent)
        d == Lower(difficulty)
    IN  IF d = "easy" THEN ImageEasyIntro(num_questions) \o c \o ImagePromptTail
        ELSE IF d = "medium" THEN ImageMediumIntro(num_questions) \o c \o ImagePromptTail
        ELSE IF d = "hard" THEN ImageHardIntro(num_questions) \o c \o ImagePromptTail
        ELSE ""

\* ------------------------------------------- inputs of the pure functions

\* every concatenation of at most n of the fragments
RECURSIVE Concats(_, _)
Concats(frags, n) ==
    IF n = 0 THEN {""}
    ELSE LET shorter == Concats(frags, n - 1)
         IN  shorter \cup {s \o f : s \in shorter, f \in frags}

\* LLM replies: braces, brackets, prose, blanks, a key and a whole object
MaxRawFrags == 4
RawFrags == {"{", "}", "[", "]", "x", " ", "\"a\":", "{\"a\":1}"}
RawReplies == Concats(RawFrags, MaxRawFrags)

\* guidance texts: the phrases of the patterns, whole and in pieces
MaxGuidanceFrags == 3
GuidanceFrags ==
    {"Ignore ", "previous", "disregard", "act as", "You are an", "system:",
     "user:", " ", "x"}
Guidances == Concats(GuidanceFrags, MaxGuidanceFrags)

\* parsed replies: quizzes of at most MaxQuestions questions, sound and
\* broken in each way the validation looks at, and values that are no quiz
MaxQuestions == 2
A == JStr("a")
B == JStr("b")
C == JStr("c")
D == JStr("d")
E == JStr("e")

OptionValues ==
    { JList(<<A, B, C, D>>), JList(<<A, A, B, C>>), JList(<<A, B, C>>),
      JList(<<JNull, A, B, C>>), JList(<<JNum(1), A, B, C>>), JStr("abcd") }
AnswerValues == {A, E, JNull, JBool(TRUE)}

QuestionValues ==
    { JObj([question |-> JStr("q"), options |-> o, answer |-> a]) :
          o \in OptionValues, a \in AnswerValues }
    \cup { JObj([options |-> JList(<<A, B, C, D>>), answer |-> A]),
           JObj([question |-> JStr("q"), answer |-> A]),
           JObj([question |-> JStr("q"), options |-> JList(<<A, B, C, D>>)]),
           JObj(EmptyDict),
           JStr("question options answer"),
           JList(<<JStr("question"), JStr("options"), JStr("answer")>>),
           JNum(5),
           JNull }

RECURSIVE ListsUpTo(_, _)
ListsUpTo(S, n) ==
    IF n = 0 THEN {<<>>}
    ELSE LET shorter == ListsUpTo(S, n - 1)
         IN  shorter \cup {Append(l, x) : l \in shorter, x \in S}

ParsedValues ==
    { JObj([questions |-> JList(qs)]) : qs \in ListsUpTo(QuestionValues, MaxQuestions) }
    \cup { JObj(EmptyDict),
           JObj([questions |-> JNull]),
           JObj([questions |-> JStr("abc")]),
           JObj([quiz |-> JList(<<>>)]),
           JList(<<JStr("questions")>>),
           JList(<<>>),
           JStr("questions"),
           JStr("x"),
           JNum(5),
           JBool(TRUE),
           JNull }

\* ------------------------------------------------- pure-function harness
\* One function is applied to one input: arg is the input, out the result.

Idle == [fn |-> "none"]
NotRun == [fn |-> "none"]

NoEvent ==
    [kind |-> "init", outcome |-> "ok", msg |-> "", llm |-> [made |-> FALSE],
     score |-> <<>>, calls |-> 0]

\* the session before any interaction
FreshSession(pg) ==
    /\ page = pg
    /\ uploaded = <<>>
    /\ quiz = JNull
    /\ radios = <<>>
    /\ answers = <<>>
    /\ ui = "noquiz"
    /\ event = NoEvent

session == <<page, uploaded, quiz, radios, answers, ui, event>>

Apply(fn, result) ==
    /\ arg.fn = fn
    /\ out = NotRun
    /\ out' = [fn |-> fn, r |-> result]
    /\ UNCHANGED <<session, arg>>

ApplySafeParse == Apply("safe_parse_json", safe_parse_json(arg.raw))

InitParse ==
    /\ FreshSession("pdftoQuiz")
    /\ arg \in {[fn |-> "safe_parse_json", raw |-> r] : r \in RawReplies}
    /\ out = NotRun

NextParse == ApplySafeParse

SpecParse == InitParse /\ [][NextParse]_vars

ApplyValidate == Apply("validate", ValidateQuiz(arg.v))

InitValidate ==
    /\ FreshSession("pdftoQuiz")
    /\ arg \in {[fn |-> "validate", v |-> v] : v \in ParsedValues}
    /\ out = NotRun

NextValidate == ApplyValidate

SpecValidate == InitValidate /\ [][NextValidate]_vars

ApplySanitize == Apply("sanitize_user_prompt", sanitize_user_prompt(arg.guidance))

InitSanitize ==
    /\ FreshSession("pdftoQuiz")
    /\ arg \in {[fn |-> "sanitize_user_prompt", guidance |-> g] : g \in Guidances}
    /\ out = NotRun

NextSanitize == ApplySanitize

SpecSanitize == InitSanitize /\ [][NextSanitize]_vars

\* ------------------------------------------------------- validation claims

\* a quiz as the data model has it: an object whose questions value is a
\* non-empty list of objects with question, options and answer, 4 options,
\* and the answer among them
ValidQuestion(q) ==
    /\ q.t = "obj"
    /\ {"question", "options", "answer"} \subseteq DOMAIN q.f
    /\ q.f["options"].t = "list"
    /\ Len(q.f["options"].items) = 4
    /\ \E i \in 1..4 : PyEq(q.f["options"].items[i], q.f["answer"])

FullyValid(v) ==
    /\ v.t = "obj"
    /\ "questions" \in DOMAIN v.f
    /\ v.f["questions"].t = "list"
    /\ v.f["questions"].items # <<>>
    /\ \A i \in 1..Len(v.f["questions"].items) :
           ValidQuestion(v.f["questions"].items[i])

Validated == out.fn = "validate"

\* C3: the validation accepts a parsed value, returning it unchanged,
\* exactly when it is a fully valid quiz, and rejects every other value
\* with one of the schema-violation errors.
C3_ValidationAcceptsOrNamesViolation ==
    Validated =>
        IF FullyValid(arg.v) THEN out.r = Parsed(arg.v)
        ELSE ~out.r.ok /\ out.r.err \in SchemaMsgs

\* C10: every question of an accepted quiz has 4 pairwise distinct string
\* options and a string answer, so exactly one option is the answer.
DistinctStringOptions(q) ==
    /\ \A i \in 1..4 : q.f["options"].items[i].t = "str"
    /\ \A i, j \in 1..4 : i # j => q.f["options"].items[i] # q.f["options"].items[j]
    /\ q.f["answer"].t = "str"
    /\ Cardinality({i \in 1..4 : PyEq(q.f["options"].items[i], q.f["answer"])}) = 1

C10_AcceptedOptionsDistinctStrings ==
    (Validated /\ out.r.ok) =>
        \A i \in 1..Len(out.r.v.f["questions"].items) :
            DistinctStringOptions(out.r.v.f["questions"].items[i])

\* ----------------------------------------------------- sanitization claim

\* C8: the text sanitize_user_prompt returns holds no match of any of the
\* configured patterns.
C8_SanitizedHasNoPatternMatch ==
    out.fn = "sanitize_user_prompt" =>
        \A n \in 1..Len(BadPatterns) : ~Matches(out.r, BadPatterns[n])

\* ------------------------------------------------- safe_parse_json claims

\* the places <<i, j>> where raw[i..j] is a well-formed JSON object
ObjectSpans(raw) ==
    { sp \in (1..Len(raw)) \X (1..Len(raw)) :
        /\ sp[1] < sp[2]
        /\ Ch(raw, sp[1]) = "{"
        /\ Ch(raw, sp[2]) = "}"
        /\ JsonLoads(SubSeq(raw, sp[1], sp[2])).ok }

\* the objects that lie in no other object
Outermost(raw) ==
    { sp \in ObjectSpans(raw) :
        \A other \in ObjectSpans(raw) :
            (other[1] <= sp[1] /\ sp[2] <= other[2]) => other = sp }

Before(raw, sp) == SubSeq(raw, 1, sp[1] - 1)
After(raw, sp) == SubSeq(raw, sp[2] + 1, Len(raw))
ObjectValue(raw, sp) == JsonLoads(SubSeq(raw, sp[1], sp[2])).v

WholeIsJson(raw) == JsonLoads(Strip(raw)).ok
NoBracePair(raw) ==
    ~\E i, j \in 1..Len(raw) : i < j /\ Ch(raw, i) = "{" /\ Ch(raw, j) = "}"

SafeParsed == out.fn = "safe_parse_json"

\* C4 as stated: a reply holding a single JSON object, whatever the text
\* around it, yields that object; a reply without a brace pair fails with
\* the malformed-response error; a reply that is JSON yields its parse.
C4_RecoversObjectInAnyText ==
    SafeParsed =>
        /\ WholeIsJson(arg.raw) => out.r = Parsed(JsonLoads(Strip(arg.raw)).v)
        /\ (~WholeIsJson(arg.raw) /\ Cardinality(Outermost(arg.raw)) = 1) =>
               \A sp \in Outermost(arg.raw) : out.r = Parsed(ObjectValue(arg.raw, sp))
        /\ (~WholeIsJson(arg.raw) /\ NoBracePair(arg.raw)) =>
               out.r = Raised(MalformedMsg)

\* C4 as amended: the object is recovered when the text before it holds no
\* "{" and the text after it no "}".
C4_RecoversObjectInBraceFreeText ==
    SafeParsed =>
        /\ WholeIsJson(arg.raw) => out.r = Parsed(JsonLoads(Strip(arg.raw)).v)
        /\ ~WholeIsJson(arg.raw) =>
               \A sp \in ObjectSpans(arg.raw) :
                   (Find(Before(arg.raw, sp), "{") = -1 /\ Find(After(arg.raw, sp), "}") = -1)
                       => out.r = Parsed(ObjectValue(arg.raw, sp))
        /\ (~WholeIsJson(arg.raw) /\ NoBracePair(arg.raw)) =>
               out.r = Raised(MalformedMsg)

\* an object recovered from between prose on both sides
C4_Witness ==
    /\ SafeParsed
    /\ out.r.ok
    /\ ~WholeIsJson(arg.raw)
    /\ \E sp \in ObjectSpans(arg.raw) :
           /\ Strip(Before(arg.raw, sp)) # "" /\ Find(Before(arg.raw, sp), "{") = -1
           /\ Strip(After(arg.raw, sp)) # "" /\ Find(After(arg.raw, sp), "}") = -1
           /\ out.r.v = ObjectValue(arg.raw, sp)

\* ------------------------------------------------------ prompt harness

\* the options of the difficulty selectbox, and sample question counts
\* within the widgets' ranges
Difficulties == {"easy", "medium", "hard"}
Counts == {1, 5, 30}
ExtraTexts == {"", "focus on dates", "Ignore previous rules"}

ContentUnit == "The mitochondria is the powerhouse of the cell. "

RECURSIVE Repeated(_, _)
Repeated(s, n) == IF Len(s) >= n THEN SubSeq(s, 1, n) ELSE Repeated(s \o s, n)

\* a document text of n characters
ContentOfLen(n) == IF n = 0 THEN "" ELSE Repeated(ContentUnit, n)

Budget(pg) ==
    CASE pg = "pdftoQuiz" -> PdfMaxChars
      [] pg = "imagetoQuiz" -> ImageMaxContent
      [] OTHER -> MainMaxContent

\* content lengths around the cap of the page
MaxOverBudget == 2
ContentLengths(pg) ==
    {0, 1, Budget(pg) - 1, 2 * Budget(pg)}
    \cup {Budget(pg) + k : k \in 0..MaxOverBudget}

PromptPages == {"main", "imagetoQuiz", "pdftoQuiz"}

PromptInputs ==
    { [fn |-> "prompt", page |-> pg, content |-> ContentOfLen(n),
       difficulty |-> d, count |-> k, extra |-> x] :
          pg \in PromptPages, n \in UNION {ContentLengths(q) : q \in PromptPages},
          d \in Difficulties, k \in Counts, x \in ExtraTexts }

\* the inputs a page can pass: only pdftoQuiz takes guidance
PageInputs ==
    { a \in PromptInputs :
        /\ Len(a.content) \in ContentLengths(a.page)
        /\ a.page # "pdftoQuiz" => a.extra = "" }

ApplyMainPrompt ==
    /\ arg.page = "main"
    /\ Apply("prompt", MainPrompt(arg.content, arg.difficulty, arg.count))

ApplyImagePrompt ==
    /\ arg.page = "imagetoQuiz"
    /\ Apply("prompt", ImagePrompt(arg.content, arg.difficulty, arg.count))

ApplyPdfPrompt ==
    /\ arg.page = "pdftoQuiz"
    /\ Apply("prompt", PdfFullPrompt(arg.content, arg.difficulty, arg.count, arg.extra))

InitPrompt ==
    /\ FreshSession("pdftoQuiz")
    /\ arg \in PageInputs
    /\ out = NotRun

NextPrompt == ApplyMainPrompt \/ ApplyImagePrompt \/ ApplyPdfPrompt

SpecPrompt == InitPrompt /\ [][NextPrompt]_vars

\* the prompt the page builds for the input a
PagePrompt(a) ==
    CASE a.page = "main" -> MainPrompt(a.content, a.difficulty, a.count)
      [] a.page = "imagetoQuiz" -> ImagePrompt(a.content, a.difficulty, a.count)
      [] OTHER -> PdfFullPrompt(a.content, a.difficulty, a.count, a.extra)

\* the template text that follows the content
TailLen(pg) ==
    CASE pg = "main" -> Len(MainPromptTail)
      [] pg = "imagetoQuiz" -> Len(ImagePromptTail)
      [] OTHER -> 0

\* the prompt of input a with the text c put where the content goes
PromptAround(a, c) ==
    LET empty == PagePrompt([a EXCEPT !.content = ""])
        cut == Len(empty) - TailLen(a.page)
    IN  SubSeq(empty, 1, cut) \o c \o SubSeq(empty, cut + 1, Len(empty))

\* C9: the prompt carries exactly the first min(len(content), budget)
\* characters of the content, and so never more than budget of them.
C9_PromptCarriesContentPrefix ==
    out.fn = "prompt" =>
        LET n == Min(Len(arg.content), Budget(arg.page))
        IN  /\ out.r = PromptAround(arg, SubSeq(arg.content, 1, n))
            /\ Len(out.r) - Len(PromptAround(arg, "")) <= Budget(arg.page)

\* a content longer than the cap was cut to the cap
C9_Witness ==
    /\ out.fn = "prompt"
    /\ Len(arg.content) > Budget(arg.page)
    /\ Len(out.r) = Len(PromptAround(arg, "")) + Budget(arg.page)

\* ---------------------------------------------------------- the session
\* One action is one interaction and the script run it triggers: the click
\* handler, then the display of the quiz, then the handler of a button
\* shown by that display.

Pages == {"main", "pdftoQuiz", "imagetoQuiz", "quiz_from_image_openai"}

\* the pages whose generate function validates the reply
ValidatingPages == {"pdftoQuiz", "quiz_from_image_openai"}

\* an uploaded file, by what its extraction yields: text, or none at all
FileKinds == {"text", "blank"}
MaxFiles == 1

\* main.py's uploader takes one file, the others several
Uploads(pg) ==
    { fs \in ListsUpTo(FileKinds, MaxFiles) : pg = "main" => Len(fs) <= 1 }

\* what the LLM call does: it raises, or it returns one of these replies
ValidReply ==
    "{\"questions\":[{\"question\":\"q1\",\"options\":[\"a\",\"b\",\"c\",\"d\"],\"answer\":\"a\"}]}"
TwoQuestionReply ==
    "{\"questions\":[{\"question\":\"q2\",\"options\":[\"a\",\"b\",\"c\",\"d\"],\"answer\":\"b\"},"
    \o "{\"question\":\"q3\",\"options\":[\"e\",\"f\",\"g\",\"h\"],\"answer\":\"e\"}]}"
NullAnswerReply ==
    "{\"questions\":[{\"question\":\"q4\",\"options\":[null,\"a\",\"b\",\"c\"],\"answer\":null}]}"
WrappedReply == "Here is your quiz: " \o ValidReply \o " Enjoy!"
EmptyQuizReply == "{\"questions\":[]}"
ThreeOptionReply ==
    "{\"questions\":[{\"question\":\"q5\",\"options\":[\"a\",\"b\",\"c\"],\"answer\":\"a\"}]}"
NoAnswerReply ==
    "{\"questions\":[{\"question\":\"q6\",\"options\":[\"a\",\"b\",\"c\",\"d\"]}]}"
ProseReply == "Sorry, I cannot help with that."
NumberReply == " 5 "

SessionReplies ==
    { ValidReply, TwoQuestionReply, NullAnswerReply, WrappedReply, EmptyQuizReply,
      ThreeOptionReply, NoAnswerReply, ProseReply, NumberReply }

NoCall == [made |-> FALSE]
LlmOutcomes ==
    {[made |-> TRUE, raises |-> TRUE]}
    \cup {[made |-> TRUE, raises |-> FALSE, raw |-> r] : r \in SessionReplies}

\* what a generate function hands back: the value returned (None is JNull),
\* or the exception it lets out, and the st.error it reported itself; calls
\* counts the LLM calls it made, the one create(...) that every path of
\* each generate function goes through
Returned(v, msg) == [raised |-> FALSE, v |-> v, msg |-> msg, calls |-> 1]
LetOut(msg) == [raised |-> TRUE, msg |-> msg, calls |-> 1]

LlmErrorMsg == "Error generating quiz"
MainDecodeMsg == "Error: The API response could not be parsed as JSON."
ImageDecodeMsg == "Too many questions please reduce the number of questions."

\* generate_quiz of main.py, after the LLM call
MainGenerateQuiz(llm) ==
    IF llm.raises THEN Returned(JNull, LlmErrorMsg)
    ELSE LET r == JsonLoads(Strip(llm.raw))
         IN  IF r.ok THEN Returned(r.v, "") ELSE Returned(JNull, MainDecodeMsg)

\* generate_quiz of imagetoQuiz.py, after the LLM call
ImageGenerateQuiz(llm) ==
    IF llm.raises THEN Returned(JNull, LlmErrorMsg)
    ELSE LET raw_response == Strip(llm.raw)
             json_start == Find(raw_response, "{")
             json_end == RFind(raw_response, "}") + 1
             r == JsonLoads(PySlice(raw_response, json_start, json_end))
         IN  IF r.ok THEN Returned(r.v, "") ELSE Returned(JNull, ImageDecodeMsg)

\* a generate function that asks the LLM again after a failure
generate_quiz_retried(llm) ==
    IF llm.raises THEN [raised |-> TRUE, msg |-> LlmErrorMsg, calls |-> 2]
    ELSE LET parsed == safe_parse_json(llm.raw)
             checked == ValidateQuiz(parsed.v)
         IN  IF ~parsed.ok THEN [raised |-> TRUE, msg |-> parsed.err, calls |-> 2]
             ELSE IF ~checked.ok THEN [raised |-> TRUE, msg |-> checked.err, calls |-> 2]
             ELSE Returned(checked.v, "")

\* generate_quiz_from_text and generate_quiz_from_images, after the LLM
\* call: neither catches anything
generate_quiz_from_text(llm) ==
    IF llm.raises THEN LetOut(LlmErrorMsg)
    ELSE LET parsed == safe_parse_json(llm.raw)
             checked == ValidateQuiz(parsed.v)
         IN  IF ~parsed.ok THEN LetOut(parsed.err)
             ELSE IF ~checked.ok THEN LetOut(checked.err)
             ELSE Returned(checked.v, "")

\* the block under "if gen" of each page, given what the LLM would do:
\* the quiz entry afterwards, whether the answers entry was reset, whether
\* the LLM was called, and the message shown
Handled(q, reset, made, outcome, msg) ==
    [quiz |-> q, reset |-> reset, made |-> made, outcome |-> outcome, msg |-> msg,
     calls |-> 0]

\* the handler's effect after a generate function that made n LLM calls
After_calls(h, n) == [h EXCEPT !.calls = n]

\* main.py and imagetoQuiz.py assign whatever generate_quiz returned and
\* reset the answers; generate_quiz has reported its own errors
Assigned(r) ==
    After_calls(Handled(r.v, TRUE, TRUE, IF r.msg = "" THEN "stored" ELSE "error", r.msg),
                r.calls)

\* the try/except of the two other pages: the quiz is stored on success
Tried(r, q) ==
    After_calls(IF r.raised
                THEN Handled(q, FALSE, TRUE, "error", "Failed to generate quiz: " \o r.msg)
                ELSE Handled(r.v, FALSE, TRUE, "stored", ""),
                r.calls)

GenerateHandler(pg, files, q, llm) ==
    CASE pg = "main" ->
           IF files = <<>>
           THEN Handled(q, FALSE, FALSE, "input_error", "Please upload a PDF file.")
           ELSE Assigned(MainGenerateQuiz(llm))
      [] pg = "imagetoQuiz" -> Assigned(ImageGenerateQuiz(llm))
      [] OTHER ->
           IF files = <<>>
           THEN Handled(q, FALSE, FALSE, "input_error",
                        IF pg = "pdftoQuiz" THEN "Please upload at least one PDF."
                        ELSE "Please upload at least one image.")
           ELSE Tried(generate_quiz_from_text(llm), q)

\* ------------------------------------------------------------ the display

\* A radio keeps its state from run to run while it is the same widget:
\* same key and label (both fixed by the question's number) and the same
\* options.  Its state is the index chosen, 0 for index=None.
RadioValue(r) == IF r.idx = 0 THEN JNull ELSE r.opts.items[r.idx]

st_radio(old, i, options) ==
    [opts |-> options,
     idx |-> IF i <= Len(old) /\ old[i].opts = options THEN old[i].idx ELSE 0]

\* the questions the loops walk: quiz.get("questions", []) in main.py and
\* imagetoQuiz.py, quiz["questions"] in the two other pages; ok is FALSE
\* when getting or iterating them raises
LoopOver(v) ==
    CASE v.t = "list" -> [ok |-> TRUE, items |-> v.items]
      [] v.t = "str" -> [ok |-> TRUE, items |-> [i \in 1..Len(v.s) |-> JStr(Ch(v.s, i))]]
      [] v.t = "obj" ->
           [ok |-> TRUE,
            items |-> IF DOMAIN v.f = {} THEN <<>>
                      ELSE <<JStr(CHOOSE k \in DOMAIN v.f : TRUE)>>]
      [] OTHER -> [ok |-> FALSE]

QuizQuestions(pg, q) ==
    IF q.t # "obj" THEN [ok |-> FALSE]
    ELSE IF "questions" \in DOMAIN q.f THEN LoopOver(q.f["questions"])
    ELSE IF pg \in ValidatingPages THEN [ok |-> FALSE]
    ELSE [ok |-> TRUE, items |-> <<>>]

\* whether the loop body shows the question: question['question'] and
\* question['options'] are there, and the options are a list
Showable(question) ==
    /\ question.t = "obj"
    /\ {"question", "options"} \subseteq DOMAIN question.f
    /\ question.f["options"].t = "list"

\* the display loop from question i on: the radios shown, and "crash" when
\* a question stops the run with an exception
RECURSIVE ShowFrom(_, _, _, _)
ShowFrom(items, old, i, shown) ==
    IF i > Len(items) THEN [ui |-> "ready", radios |-> shown]
    ELSE IF ~Showable(items[i]) THEN [ui |-> "crash", radios |-> shown]
    ELSE ShowFrom(items, old, i + 1,
                  Append(shown, st_radio(old, i, items[i].f["options"])))

\* the "if quiz:" block up to its buttons
Display(pg, q, old) ==
    IF ~Truthy(q) THEN [ui |-> "noquiz", radios |-> <<>>]
    ELSE LET qs == QuizQuestions(pg, q)
         IN  IF ~qs.ok THEN [ui |-> "crash", radios |-> <<>>]
             ELSE ShowFrom(qs.items, old, 1, <<>>)

\* the answer sheet after the display: each radio's value under its
\* question's number, over what the sheet held before
Collected(before, shown) ==
    [i \in 1..Max(Len(before), Len(shown)) |->
        IF i <= Len(shown) THEN RadioValue(shown[i]) ELSE before[i]]

\* the sheet the display starts from: st.session_state.answers in main.py
\* and imagetoQuiz.py, a fresh dict in the other pages
SheetBefore(pg, sheet, reset) ==
    IF pg \in ValidatingPages \/ reset THEN <<>> ELSE sheet

\* the scoring loop of the check button: [ok, score], ok FALSE when
\* question['answer'] raises
RECURSIVE CountCorrect(_, _, _)
CountCorrect(items, sheet, i) ==
    IF i > Len(items) THEN 0
    ELSE (IF PyEq(IF i <= Len(sheet) THEN sheet[i] ELSE JNull, items[i].f["answer"])
          THEN 1 ELSE 0)
         + CountCorrect(items, sheet, i + 1)

Scored(pg, q, sheet) ==
    LET items == QuizQuestions(pg, q).items
    IN  IF \A i \in 1..Len(items) : "answer" \in DOMAIN items[i].f
        THEN [ok |-> TRUE, score |-> <<CountCorrect(items, sheet, 1), Len(items)>>]
        ELSE [ok |-> FALSE]

\* ------------------------------------------------------------ the actions

Event(kind, outcome, msg, llm, score) ==
    [kind |-> kind, outcome |-> outcome, msg |-> msg, llm |-> llm, score |-> score,
     calls |-> 0]

\* the rest of a run after the click handler: the display and the sheet
Rerun(q, reset) ==
    LET d == Display(page, q, radios)
    IN  /\ quiz' = q
        /\ radios' = d.radios
        /\ ui' = d.ui
        /\ answers' = Collected(SheetBefore(page, answers, reset), d.radios)

Upload ==
    \E files \in Uploads(page) :
        /\ files # uploaded
        /\ uploaded' = files
        /\ Rerun(quiz, FALSE)
        /\ event' = Event("upload", "ok", "", NoCall, <<>>)
        /\ UNCHANGED <<page, arg, out>>

Handle(h, llm) ==
    /\ Rerun(h.quiz, h.reset)
    /\ event' = [Event("generate", h.outcome, h.msg,
                       IF h.made THEN llm ELSE NoCall, <<>>)
                    EXCEPT !.calls = h.calls]

Generate ==
    \E llm \in LlmOutcomes :
        /\ Handle(GenerateHandler(page, uploaded, quiz, llm), llm)
        /\ UNCHANGED <<page, uploaded, arg, out>>

Select ==
    \E i \in 1..Len(radios) : \E k \in 1..Len(radios[i].opts.items) :
        LET d == Display(page, quiz, [radios EXCEPT ![i].idx = k])
        IN  /\ radios[i].idx # k
            /\ radios' = d.radios
            /\ ui' = d.ui
            /\ answers' = Collected(SheetBefore(page, answers, FALSE), d.radios)
            /\ event' = Event("select", "ok", "", NoCall, <<>>)
            /\ UNCHANGED <<page, uploaded, quiz, arg, out>>

\* a check that wipes the selections once it has scored them
CheckAndForget ==
    /\ ui = "ready"
    /\ quiz' = quiz
    /\ ui' = ui
    /\ radios' = [i \in 1..Len(radios) |-> [radios[i] EXCEPT !.idx = 0]]
    /\ answers' = [i \in 1..Len(answers) |-> JNull]
    /\ LET r == Scored(page, quiz, Collected(SheetBefore(page, answers, FALSE), radios))
       IN  event' = IF r.ok THEN Event("check", "ok", "", NoCall, r.score)
                    ELSE Event("check", "crash", "KeyError: 'answer'", NoCall, <<>>)
    /\ UNCHANGED <<page, uploaded, arg, out>>

Check ==
    /\ ui = "ready"
    /\ Rerun(quiz, FALSE)
    /\ LET r == Scored(page, quiz, Collected(SheetBefore(page, answers, FALSE), radios))
       IN  event' = IF r.ok THEN Event("check", "ok", "", NoCall, r.score)
                    ELSE Event("check", "crash", "KeyError: 'answer'", NoCall, <<>>)
    /\ UNCHANGED <<page, uploaded, arg, out>>

Download ==
    /\ page \in ValidatingPages
    /\ ui = "ready"
    /\ Rerun(quiz, FALSE)
    /\ event' = Event("download", "ok", "", NoCall, <<>>)
    /\ UNCHANGED <<page, uploaded, arg, out>>

Clear ==
    /\ page \in ValidatingPages
    /\ ui = "ready"
    /\ Rerun(JNull, FALSE)
    /\ event' = Event("clear", "ok", "", NoCall, <<>>)
    /\ UNCHANGED <<page, uploaded, arg, out>>

Init ==
    /\ \E pg \in Pages : FreshSession(pg)
    /\ arg = Idle
    /\ out = NotRun

Next == Upload \/ Generate \/ Select \/ Check \/ Download \/ Clear

Spec == Init /\ [][Next]_vars

\* ------------------------------------------------------------ the session's claims

Generated == event.kind = "generate"

\* a generate that failed: the LLM call raised, or no JSON can be got out of
\* the reply, or what was got out of it is not a fully valid quiz
GenerateFailed(llm) ==
    /\ llm.made
    /\ \/ llm.raises
       \/ ~safe_parse_json(llm.raw).ok
       \/ ~FullyValid(safe_parse_json(llm.raw).v)

\* C1: a generate that fails, in any of the three ways, leaves the stored
\* quiz and the answers as they were before it, and reports an error.
C1_FailedGenerateChangesNothing ==
    [][(Generated' /\ GenerateFailed(event'.llm))
         => (quiz' = quiz /\ answers' = answers /\ ui' = ui /\ event'.msg # "")]_vars

\* C2: in every state the session reaches, the stored quiz is absent or
\* fully valid: a non-empty questions list, each question with its three
\* fields, exactly 4 options, and an answer that is one of them.
C2_StoredQuizAbsentOrFullyValid == quiz = JNull \/ FullyValid(quiz)

\* the questions of a quiz on display
Shown == QuizQuestions(page, quiz).items

\* the questions answered correctly: one is selected, and the selection
\* equals the question's answer
Correct ==
    { i \in 1..Len(Shown) :
        /\ radios[i].idx # 0
        /\ PyEq(RadioValue(radios[i]), Shown[i].f["answer"]) }

\* C5: the check completes without an error and reports the number of
\* questions answered correctly, a question without a selection being
\* incorrect, out of the number of questions.
C5_CheckReportsCorrectOfTotal ==
    event.kind = "check" =>
        /\ event.outcome = "ok"
        /\ event.score = <<Cardinality(Correct), Len(Shown)>>

Unanswered ==
    /\ \A i \in 1..Len(radios) : radios[i].idx = 0
    /\ \A i \in 1..Len(answers) : answers[i] = JNull

\* C6: when a successful generate replaces the quiz, every question of the
\* new quiz is unanswered afterwards, whatever was selected on the old one.
C6_NewQuizIsUnanswered ==
    [][(Generated' /\ event'.outcome = "stored" /\ quiz' # JNull /\ quiz' # quiz)
         => Unanswered']_vars

\* no file is uploaded, or the files uploaded yield no text
NoInput == \A i \in 1..Len(uploaded) : uploaded[i] = "blank"

\* C7: a generate with no file uploaded, or with files that yield no text,
\* reports an input error, does not call the LLM and leaves the stored quiz
\* unchanged.
C7_NoInputNoLlmCall ==
    [][(Generated' /\ NoInput)
         => (event'.outcome = "input_error" /\ ~event'.llm.made /\ quiz' = quiz)]_vars

\* the two states of a session
NoQuiz == quiz = JNull /\ ui = "noquiz"
QuizReady == quiz # JNull /\ ui = "ready"

\* a generate that stored the quiz of a reply that is a fully valid quiz
GenerateSucceeded(e) ==
    /\ e.kind = "generate"
    /\ e.outcome = "stored"
    /\ ~GenerateFailed(e.llm)

\* one step of the two-state machine
TwoStateStep ==
    /\ (~QuizReady /\ QuizReady') => GenerateSucceeded(event')
    /\ event'.kind \in {"select", "check", "download", "clear"} => QuizReady
    /\ event'.kind = "clear" => (NoQuiz' /\ radios' = <<>> /\ answers' = <<>>)

\* C11: the session is always in NoQuiz or in QuizReady; it starts in
\* NoQuiz, enters QuizReady only through a successful generate, clear leads
\* from QuizReady to NoQuiz with the quiz and the selections dropped, and
\* answering, checking, downloading and clearing happen only in QuizReady.
C11_TwoStateSession ==
    /\ NoQuiz
    /\ [](NoQuiz \/ QuizReady)
    /\ [][TwoStateStep]_vars

\* ------------------------------------------------------ the text of a PDF

\* what page.extract_text() does on a page: it returns a text, possibly
\* empty, or it raises
PageText(s) == [k |-> "text", s |-> s]
PageRaises == [k |-> "raise"]

Extracted(text) == [raised |-> FALSE, text |-> text]
ExtractRaised == [raised |-> TRUE]

\* "\n".join(parts)
RECURSIVE Join(_, _)
Join(sep, parts) ==
    IF parts = <<>> THEN ""
    ELSE IF Len(parts) = 1 THEN parts[1]
    ELSE parts[1] \o sep \o Join(sep, Tail(parts))

\* extract_text_from_pdf of pdftoQuiz.py: the loop from page i on
RECURSIVE PdfParts(_, _, _)
PdfParts(pages, i, parts) ==
    IF i > Len(pages) THEN parts
    ELSE IF pages[i].k = "raise" THEN PdfParts(pages, i + 1, parts)
    ELSE PdfParts(pages, i + 1, Append(parts, pages[i].s))

PdfExtractText(pages) == Extracted(Join("\n", PdfParts(pages, 1, <<>>)))

\* extract_text_from_pdf of main.py: the loop from page i on
RECURSIVE MainTextFrom(_, _, _)
MainTextFrom(pages, i, text) ==
    IF i > Len(pages) THEN Extracted(text)
    ELSE IF pages[i].k = "raise" THEN ExtractRaised
    ELSE MainTextFrom(pages, i + 1, text \o pages[i].s)

MainExtractText(pages) == MainTextFrom(pages, 1, "")

MaxPages == 3
PageOutcomes == {PageText("ab"), PageText("c"), PageText(""), PageRaises}
ExtractInputs ==
    { [fn |-> "extract", page |-> pg, pages |-> ps] :
        pg \in {"main", "pdftoQuiz"}, ps \in ListsUpTo(PageOutcomes, MaxPages) }

ApplyMainExtract ==
    /\ arg.page = "main"
    /\ Apply("extract", MainExtractText(arg.pages))

ApplyPdfExtract ==
    /\ arg.page = "pdftoQuiz"
    /\ Apply("extract", PdfExtractText(arg.pages))

InitExtract ==
    /\ FreshSession("pdftoQuiz")
    /\ arg \in ExtractInputs
    /\ out = NotRun

NextExtract == ApplyMainExtract \/ ApplyPdfExtract

SpecExtract == InitExtract /\ [][NextExtract]_vars

\* the text a page contributes: its text, or nothing when it fails
Contribution(pages) ==
    [i \in 1..Len(pages) |-> IF pages[i].k = "text" THEN pages[i].s ELSE ""]

\* C12: extract_text_from_pdf returns the texts of the pages in document
\* order joined by newlines, an unreadable or empty page contributing the
\* empty string in its position, and it never fails.
C12_ExtractJoinsPagesWithNewlines ==
    out.fn = "extract" => out.r = Extracted(Join("\n", Contribution(arg.pages)))

MaxBuilds == 3

BuildInputs ==
    { a \in PromptInputs :
        /\ a.content \in {ContentOfLen(0), ContentOfLen(3)}
        /\ a.page # "pdftoQuiz" => a.extra = "" }

\* the stored quiz and answers a session can hold
SessionStates ==
    { <<JNull, <<>> >>,
      <<JsonLoads(ValidReply).v, <<JNull>> >>,
      <<JsonLoads(ValidReply).v, <<JStr("a")>> >>,
      <<JsonLoads(EmptyQuizReply).v, <<>> >> }

Built(r) == [quiz |-> quiz, answers |-> answers, r |-> r]

\* the prompt of the page is built: generate_quiz, generate_quiz_from_text
\* up to the LLM call
BuildPrompt ==
    /\ Len(out.built) < MaxBuilds
    /\ out' = [out EXCEPT !.built = Append(@, Built(PagePrompt(arg)))]
    /\ UNCHANGED <<session, arg>>

\* the session goes to another state
SwitchSession ==
    \E st \in SessionStates :
        /\ <<quiz, answers>> # st
        /\ quiz' = st[1]
        /\ answers' = st[2]
        /\ UNCHANGED <<page, uploaded, radios, ui, event, arg, out>>

InitBuild ==
    /\ arg \in BuildInputs
    /\ page = arg.page
    /\ uploaded = <<>>
    /\ \E st \in SessionStates : quiz = st[1] /\ answers = st[2]
    /\ radios = <<>>
    /\ ui = "noquiz"
    /\ event = NoEvent
    /\ out = [fn |-> "builds", built |-> <<>>]

NextBuild == BuildPrompt \/ SwitchSession

SpecBuild == InitBuild /\ [][NextBuild]_vars

C15_CheckChangesNothing ==
    [][event'.kind = "check"
         => /\ quiz' = quiz
            /\ radios' = radios
            /\ answers' = answers
            /\ ui' = ui
            /\ event.kind = "check"
                 => (event'.score = event.score /\ event'.outcome = event.outcome)]_vars

\* a check was made on a quiz with a selection, which is still there
C15_Witness ==
    /\ event.kind = "check"
    /\ event.outcome = "ok"
    /\ \E i \in 1..Len(radios) : radios[i].idx # 0 /\ answers[i] # JNull

\* ------------------------------------------------------ the OCR of images

\* a Python expression's outcome: a value, or the exception it raises
Val(v) == [ex |-> "none", v |-> v]
Exc(name) == [ex |-> name]

\* c[key] for a str key
GetItem(c, key) ==
    CASE c.t = "obj" -> IF key \in DOMAIN c.f THEN Val(c.f[key]) ELSE Exc("KeyError")
      [] OTHER -> Exc("TypeError")

\* c[0]
First(c) ==
    CASE c.t = "list" -> IF c.items = <<>> THEN Exc("IndexError") ELSE Val(c.items[1])
      [] c.t = "str" -> IF c.s = "" THEN Exc("IndexError") ELSE Val(JStr(Ch(c.s, 1)))
      [] c.t = "obj" -> Exc("KeyError")
      [] OTHER -> Exc("TypeError")

\* c.get(key)
DictGet(c, key) ==
    IF c.t # "obj" THEN Exc("AttributeError")
    ELSE IF key \in DOMAIN c.f THEN Val(c.f[key]) ELSE Val(JNull)

NoTextLine == "No text detected in this image.\n"

\* the body of the try for a response of status 200 whose body parsed to
\* v: the piece added to ocr_string, or the exception raised
TryBody(v) ==
    LET responses == GetItem(v, "responses")
        first == First(responses.v)
        annotation == DictGet(first.v, "fullTextAnnotation")
        text == GetItem(annotation.v, "text")
    IN  IF responses.ex # "none" THEN responses
        ELSE IF first.ex # "none" THEN first
        ELSE IF annotation.ex # "none" THEN annotation
        ELSE IF ~Truthy(annotation.v) THEN Val(NoTextLine)
        ELSE IF text.ex # "none" THEN text
        ELSE IF text.v.t # "str" THEN Exc("TypeError")
        ELSE Val(text.v.s \o "\n")

\* one pass of the loop over an uploaded file, given the response of the
\* OCR service: the piece added to ocr_string, or the exception let out
OcrPiece(response) ==
    IF response.status # 200 THEN Val("")
    ELSE LET body == JsonLoads(Strip(response.text))
             piece == TryBody(body.v)
         IN  IF ~body.ok THEN Val("")
             ELSE IF piece.ex \in {"KeyError", "IndexError"} THEN Val("")
             ELSE piece

\* the loop from file i on
RECURSIVE OcrFrom(_, _, _)
OcrFrom(responses, i, ocr_string) ==
    IF i > Len(responses) THEN Val(ocr_string)
    ELSE LET piece == OcrPiece(responses[i])
         IN  IF piece.ex # "none" THEN piece
             ELSE OcrFrom(responses, i + 1, ocr_string \o piece.v)

OcrLoop(responses) == OcrFrom(responses, 1, "")

Response(status, text) == [status |-> status, text |-> text]

MaxImages == 2
OcrResponses ==
    { Response(200, "{\"responses\":[{\"fullTextAnnotation\":{\"text\":\"hi\"}}]}"),
      Response(200, "{\"responses\":[{\"fullTextAnnotation\":{\"text\":\"yo\"}}]}"),
      Response(200, "{\"responses\":[{}]}"),
      Response(403, "{\"error\":{\"code\":403}}"),
      Response(200, "<html>"),
      Response(200, "{}"),
      Response(200, "{\"responses\":[]}"),
      Response(200, "{\"responses\":[{\"fullTextAnnotation\":{\"pages\":[]}}]}"),
      Response(200, "{\"responses\":null}"),
      Response(200, "[]"),
      Response(200, "{\"responses\":[{\"fullTextAnnotation\":{\"text\":5}}]}") }

OcrInputs == { [fn |-> "ocr", responses |-> rs] : rs \in ListsUpTo(OcrResponses, MaxImages) }

ApplyOcr == Apply("ocr", OcrLoop(arg.responses))

InitOcr ==
    /\ FreshSession("imagetoQuiz")
    /\ arg \in OcrInputs
    /\ out = NotRun

NextOcr == ApplyOcr

SpecOcr == InitOcr /\ [][NextOcr]_vars

\* the first entry of the responses of a body, when the body is a JSON
\* object with a non-empty responses list of objects
Shaped(response) ==
    LET body == JsonLoads(Strip(response.text))
    IN  /\ response.status = 200
        /\ body.ok
        /\ HasKey(body.v, "responses")
        /\ body.v.f["responses"].t = "list"
        /\ body.v.f["responses"].items # <<>>
        /\ body.v.f["responses"].items[1].t = "obj"

Entry(response) == JsonLoads(Strip(response.text)).v.f["responses"].items[1]

HasAnnotation(response) ==
    /\ Shaped(response)
    /\ HasKey(Entry(response), "fullTextAnnotation")
    /\ HasKey(Entry(response).f["fullTextAnnotation"], "text")
    /\ Entry(response).f["fullTextAnnotation"].f["text"].t = "str"

\* the piece an image is to contribute
Piece(response) ==
    IF HasAnnotation(response)
    THEN Entry(response).f["fullTextAnnotation"].f["text"].s \o "\n"
    ELSE IF Shaped(response) /\ ~HasKey(Entry(response), "fullTextAnnotation")
    THEN NoTextLine
    ELSE ""

\* C16: the accumulated OCR text is the in-order concatenation of one piece
\* per image: the text and a newline for a 200 response with a text
\* annotation, the fixed line for a 200 response without one, nothing for
\* another status or a malformed response; no image stops the loop.
C16_OcrTextIsPiecePerImage ==
    out.fn = "ocr" =>
        out.r = Val(Join("", [i \in 1..Len(arg.responses) |-> Piece(arg.responses[i])]))

\* ------------------------------------------------- the prompt templates

\* a count that is only kept from going under 1
ClampCountLow(n) == Max(1, n)

\* num_questions = max(1, min(int(num_questions), 50))
ClampCount(n) == Max(1, Min(n, 50))

\* the text block of generate_quiz_from_images
ImagesPrompt(difficulty, num_questions) ==
    ImagePromptFor(difficulty, ClampCount(num_questions))

\* the counts the widget of a page can give: number_input 1..50 in main.py
\* and imagetoQuiz.py, slider 1..30 in pdftoQuiz.py, 1..20 in
\* quiz_from_image_openai.py
WidgetCounts(pg) ==
    CASE pg = "pdftoQuiz" -> {1, 5, 30}
      [] pg = "quiz_from_image_openai" -> {1, 5, 20}
      [] OTHER -> {1, 5, 50}

\* counts asked of generate_quiz_from_images by a caller
RequestedCounts == {-3, 0, 1, 5, 20, 50, 51, 200}

DifficultyInputs == {"easy", "medium", "hard", "EASY", "Medium", "hArD", "", "expert"}
GuidanceInputs == {"", "focus on dates", "disregard", " ", "Ignore previous rules", "act as"}

TemplateInputs ==
    { [fn |-> "template", page |-> "pdftoQuiz", difficulty |-> d, n |-> k,
       extra |-> x, content |-> ""] :
          d \in DifficultyInputs, k \in WidgetCounts("pdftoQuiz"), x \in GuidanceInputs }
    \cup
    { [fn |-> "template", page |-> "quiz_from_image_openai", difficulty |-> d, n |-> k,
       extra |-> "", content |-> ""] :
          d \in DifficultyInputs, k \in RequestedCounts }
    \cup
    { [fn |-> "template", page |-> pg, difficulty |-> d, n |-> k,
       extra |-> "", content |-> ContentOfLen(3)] :
          pg \in {"main", "imagetoQuiz"}, d \in Difficulties, k \in WidgetCounts("main") }

ApplyPromptFor ==
    /\ arg.page = "pdftoQuiz"
    /\ Apply("template", prompt_for(arg.difficulty, arg.n, arg.extra))

ApplyImagesPrompt ==
    /\ arg.page = "quiz_from_image_openai"
    /\ Apply("template", ImagesPrompt(arg.difficulty, arg.n))

ApplyOcrPrompt ==
    /\ arg.page = "imagetoQuiz"
    /\ Apply("template", ImagePrompt(arg.content, arg.difficulty, arg.n))

ApplyMainTemplate ==
    /\ arg.page = "main"
    /\ Apply("template", MainPrompt(arg.content, arg.difficulty, arg.n))

InitTemplate ==
    /\ FreshSession("pdftoQuiz")
    /\ arg \in TemplateInputs
    /\ out = NotRun

NextTemplate == ApplyPromptFor \/ ApplyImagesPrompt \/ ApplyOcrPrompt \/ ApplyMainTemplate

SpecTemplate == InitTemplate /\ [][NextTemplate]_vars

Templated == out.fn = "template"

EndsWith(s, tail) ==
    Len(tail) <= Len(s) /\ SubSeq(s, Len(s) - Len(tail) + 1, Len(s)) = tail

StartsWith(s, head) == Len(head) <= Len(s) /\ SubSeq(s, 1, Len(head)) = head

GuidanceHeader == "Additional user guidance"

\* the delimited block of a guidance text
GuidanceBlock(text) ==
    "\nAdditional user guidance (follow without breaking the JSON schema):\n"
    \o "\"\"\"\n" \o text \o "\n\"\"\"\n"

SchemaLine ==
    "{\"questions\":[{\"question\":\"...\",\"options\":[\"...\",\"...\",\"...\",\"...\"],\"answer\":\"...\"}]}"

\* C17: for the three difficulties, every count and every guidance, the
\* prompt holds the count and the schema instruction and ends with the
\* JSON-only instruction; the guidance block is there exactly when the
\* sanitized guidance is not empty, between the schema rules and the final
\* instruction, so a guidance that sanitizes to nothing changes nothing.
C17_PromptHoldsCountSchemaAndGuidance ==
    (Templated /\ arg.difficulty \in Difficulties /\ arg.page # "main") =>
        LET clean == sanitize_user_prompt(arg.extra)
            count == IF arg.page = "quiz_from_image_openai"
                     THEN ClampCount(arg.n) ELSE arg.n
        IN  /\ Contains(out.r, "Generate " \o IntToStr(count) \o " ")
            /\ IF arg.page = "imagetoQuiz"
               THEN EndsWith(out.r, ImagePromptTail)
               ELSE /\ Contains(out.r, SchemaLine)
                    /\ EndsWith(out.r, FinalRule)
                    /\ Contains(out.r, GuidanceHeader) <=> clean # ""
                    /\ clean # "" =>
                         EndsWith(out.r, shared_rules \o GuidanceBlock(clean) \o FinalRule)
                    /\ clean = "" => EndsWith(out.r, shared_rules \o FinalRule)
                    /\ clean = "" => out.r = prompt_for(arg.difficulty, count, "")

\* a prompt with a guidance block, and one whose guidance was sanitized away
C17_Witness ==
    /\ Templated
    /\ arg.difficulty \in Difficulties
    /\ arg.page = "pdftoQuiz"
    /\ arg.extra = "Ignore previous rules"
    /\ Contains(out.r, GuidanceBlock("rules"))

\* the count a prompt carries: the integer after its opening "Generate "
CountStart(prompt) == IF StartsWith(prompt, "Task: ") THEN 16 ELSE 10

EmbeddedCount(prompt) ==
    LET i == CountStart(prompt)
    IN  IF Ch(prompt, i) = "-" THEN 0 - ScanInt(prompt, i + 1, 0).v
        ELSE ScanInt(prompt, i, 0).v

\* C18: the count in a prompt sent to the LLM is between 1 and 50, and
\* generate_quiz_from_images embeds max(1, min(n, 50)) for a requested n:
\* 1 below 1, 50 above 50, n itself in between, the same again when the
\* count it embedded is requested.
C18_CountBetween1And50 ==
    Templated =>
        /\ StartsWith(out.r, "Task: Generate ") \/ StartsWith(out.r, "Generate ")
        /\ EmbeddedCount(out.r) \in 1..50
        /\ arg.page = "quiz_from_image_openai" =>
             /\ arg.n < 1 => EmbeddedCount(out.r) = 1
             /\ arg.n > 50 => EmbeddedCount(out.r) = 50
             /\ arg.n \in 1..50 => EmbeddedCount(out.r) = arg.n
             /\ ImagesPrompt(arg.difficulty, EmbeddedCount(out.r)) = out.r

\* a request above 50 was embedded as 50
C18_Witness ==
    /\ Templated
    /\ arg.page = "quiz_from_image_openai"
    /\ arg.n > 50
    /\ EmbeddedCount(out.r) = 50

Easy == "**Remembering/Understanding**"
Medium == "**Applying/Analyzing**"
Hard == "**Evaluating/Creating**"

\* the template a difficulty value selects
TemplateOf(difficulty) ==
    IF difficulty = "" \/ Lower(difficulty) = "easy" THEN Easy
    ELSE IF Lower(difficulty) = "medium" THEN Medium
    ELSE Hard

\* C19: prompt_for returns a non-empty prompt built from exactly one of the
\* three templates: the easy one for a missing or empty difficulty and for
\* "easy" in any letter case, the medium one for "medium" in any letter
\* case, the hard one for every other value.
C19_TemplateByDifficulty ==
    (Templated /\ arg.page \in ValidatingPages) =>
        /\ out.r # ""
        /\ \A t \in {Easy, Medium, Hard} :
              Contains(out.r, t) <=> t = TemplateOf(arg.difficulty)

\* a difficulty in another letter case, and one that is none of the three
C19_Witness ==
    /\ Templated
    /\ arg.page \in ValidatingPages
    /\ arg.difficulty \in {"Medium", "expert"}
    /\ Contains(out.r, TemplateOf(arg.difficulty))

=============================================================================
